---------------------------- MODULE Spec2Model ----------------------------
(***************************************************************************)
(* A model of the Amazon product scraper (src/scraper.py, src/utils.py,    *)
(* src/models.py, src/config.py).                                          *)
(*                                                                         *)
(* Python strings are modelled as sequences of atoms.  An atom is a single *)
(* character; in URLs an atom may also be an indivisible run of characters *)
(* (an origin, a path, a marker) that no pattern of the code can split.    *)
(* Python's None is a value outside the strings.                           *)
(***************************************************************************)
EXTENDS Integers, Sequences, FiniteSets, TLC

VARIABLES
    pc,           \* position of the running call
    page_response, \* how the product-page request of the running scrape ended
    soup,         \* the parsed product page of the running scrape
    fields,       \* the product fields scrape() has extracted
    seller_soup,  \* the parsed seller page of the running scrape
    net,          \* the HTTP requests issued so far, in order
    seller_info,  \* the SellerInfo under construction
    product,      \* what scrape() returned
    arg,          \* the argument of a function applied on its own
    ret           \* its return value

vars == <<pc, page_response, soup, fields, seller_soup, net, seller_info, product, arg, ret>>

\* the value of a variable that the running scrape has not set
Idle == [idle |-> TRUE]

(***************************************************************************)
(* Strings                                                                 *)
(***************************************************************************)

\* "Not found", the sentinel of models.py and scraper.py
NotFound == <<"N", "o", "t", " ", "f", "o", "u", "n", "d">>

\* Python's None: its element is no atom of any string of the model
None == <<"<None>">>

\* A value that is not there yet (no call has returned)
Nil == <<"<nil>">>

Digit == {"0", "1", "2", "3", "4", "5", "6", "7", "8", "9"}

UpperCase == <<"A", "B", "C", "D", "E", "F", "G", "H", "I", "J", "K", "L", "M",
               "N", "O", "P", "Q", "R", "S", "T", "U", "V", "W", "X", "Y", "Z">>

LowerCase == <<"a", "b", "c", "d", "e", "f", "g", "h", "i", "j", "k", "l", "m",
               "n", "o", "p", "q", "r", "s", "t", "u", "v", "w", "x", "y", "z">>

\* str.lower() on one character
Lower(c) ==
    IF \E i \in 1..26 : UpperCase[i] = c
    THEN LowerCase[CHOOSE i \in 1..26 : UpperCase[i] = c]
    ELSE c

\* str.lower()
LowerStr(s) == [i \in 1..Len(s) |-> Lower(s[i])]

\* \s of the regular expressions, over the model's alphabet
IsSpace(c) == c = " "

SetMin(S) == CHOOSE m \in S : \A n \in S : m <= n

SetMax(S) == CHOOSE m \in S : \A n \in S : m >= n

\* s[i:] with a 1-based i
From(s, i) == SubSeq(s, i, Len(s))

\* str.strip()
Strip(s) ==
    LET keep == {i \in 1..Len(s) : ~IsSpace(s[i])}
    IN  IF keep = {} THEN <<>> ELSE SubSeq(s, SetMin(keep), SetMax(keep))

\* needle in s
Contains(s, needle) ==
    \E i \in 1..(Len(s) - Len(needle) + 1) :
        SubSeq(s, i, i + Len(needle) - 1) = needle

\* whether s begins with t
StartsWith(s, t) == Len(s) >= Len(t) /\ SubSeq(s, 1, Len(t)) = t

\* str.replace(c, '') for a one-character c
RemoveChar(s, c) == SelectSeq(s, LAMBDA x : x # c)

\* the number of leading whitespace characters of s
LeadingSpaces(s) ==
    IF \E i \in 1..Len(s) : ~IsSpace(s[i])
    THEN SetMin({i \in 1..Len(s) : ~IsSpace(s[i])}) - 1
    ELSE Len(s)

\* all strings over an alphabet of at most n characters
TextsUpTo(alphabet, n) == UNION {[1..k -> alphabet] : k \in 0..n}

(***************************************************************************)
(* utils.py: clean_seller_name                                             *)
(***************************************************************************)

\* the characters of s at the positions of keep, in order
KeepAt(s, keep) ==
    [i \in 1..Cardinality(keep) |->
        s[CHOOSE p \in keep : Cardinality({q \in keep : q <= p}) = i]]

\* re.sub(r'\((.*?)\)', '', name): scanning from the left, every "(" outside
\* a match that has a later ")" is removed together with the text up to the
\* nearest ")".  So position p goes exactly when a ")" stands at or after p
\* and a "(" stands at or before p with no ")" between that "(" and p.
InParens(s, p) ==
    /\ \E c \in p..Len(s) : s[c] = ")"
    /\ \E q \in 1..p : s[q] = "(" /\ \A k \in q..(p - 1) : s[k] # ")"

SubParens(s) == KeepAt(s, {p \in 1..Len(s) : ~InParens(s, p)})

\* re.sub(r'^\s*by\s*', '', name, flags=re.I): whitespace, "by" in any case,
\* and whatever whitespace follows (none is needed) are removed at the start
SubByPrefix(s) ==
    LET k == LeadingSpaces(s)
    IN  IF /\ Len(s) >= k + 2
           /\ Lower(s[k + 1]) = "b"
           /\ Lower(s[k + 2]) = "y"
        THEN LET rest == From(s, k + 3)
             IN  From(rest, LeadingSpaces(rest) + 1)
        ELSE s

\* the length past which clean_seller_name cuts a name
NameLimit == 100

Ellipsis == <<".", ".", ".">>

clean_seller_name(name) ==
    IF name = <<>> \/ name = NotFound THEN name
    ELSE LET a == Strip(SubParens(name))
             b == Strip(SubByPrefix(a))
         IN  IF Len(b) > NameLimit
             THEN SubSeq(b, 1, NameLimit) \o Ellipsis
             ELSE b

(***************************************************************************)
(* utils.py: extract_currency                                              *)
(***************************************************************************)

\* [\d\.,]
IsAmountChar(c) == c \in Digit \/ c = "." \/ c = ","

\* [^\d\s]
IsSymbolChar(c) == c \notin Digit /\ ~IsSpace(c)

\* ([^\d\s]+)\s*[\d\.,]+ matches at i with a group of g characters
CurrencyMatchAt(s, i, g) ==
    /\ i + g - 1 <= Len(s)
    /\ \A k \in i..(i + g - 1) : IsSymbolChar(s[k])
    /\ LET rest == From(s, i + g)
           j == LeadingSpaces(rest) + 1
       IN  j <= Len(rest) /\ IsAmountChar(rest[j])

\* re.search(r'([^\d\s]+)\s*[\d\.,]+', text): the leftmost match, its group
\* as long as backtracking allows; "$" when nothing matches
CurrencySymbol(s) ==
    LET starts == {i \in 1..Len(s) : \E g \in 1..Len(s) : CurrencyMatchAt(s, i, g)}
    IN  IF starts = {} THEN <<"$">>
        ELSE LET i == SetMin(starts)
                 g == SetMax({h \in 1..Len(s) : CurrencyMatchAt(s, i, h)})
             IN  Strip(SubSeq(s, i, i + g - 1))

\* the first maximal run of [\d\.,] of s, or None
AmountRun(s) ==
    LET hits == {i \in 1..Len(s) : IsAmountChar(s[i])}
    IN  IF hits = {} THEN None
        ELSE LET i == SetMin(hits)
                 ends == {j \in i..Len(s) : \A k \in i..j : IsAmountChar(s[k])}
             IN  SubSeq(s, i, SetMax(ends))

\* the pair (currency_symbol, price) as a record
extract_currency(price_text) ==
    LET run == AmountRun(price_text)
    IN  [symbol |-> CurrencySymbol(price_text),
         price  |-> IF run = None THEN NotFound ELSE RemoveChar(run, ",")]

(***************************************************************************)
(* utils.py: get_live_exchange_rate; config.py                             *)
(***************************************************************************)

\* DEFAULT_EXCHANGE_RATE = 0.00359 as the fraction 359 / 100000
DefaultRateNum == 359

DefaultRateDen == 100000

\* What the exchange-rate API answers: not ok (the request raises or times
\* out, the body is no JSON, rates.PKR is missing or no number) or the
\* number under rates.PKR
RateResponses ==
    {[ok |-> FALSE, pkr |-> 0], [ok |-> TRUE, pkr |-> 0], [ok |-> TRUE, pkr |-> 250]}

\* the rate as a fraction: 1 / pkr_per_usd, or the default when anything
\* raises (a division by zero included)
get_live_exchange_rate(response) ==
    IF ~response.ok \/ response.pkr = 0
    THEN [num |-> DefaultRateNum, den |-> DefaultRateDen]
    ELSE [num |-> 1, den |-> response.pkr]

(***************************************************************************)
(* scraper.py: _extract_price, _handle_currency_conversion                 *)
(***************************************************************************)

\* the atom standing for the rupee sign U+20A8
RupeeSign == "<U+20A8>"

\* ["PKR", "₨", "Rs"]
NonUsdSymbols == {<<"P", "K", "R">>, <<RupeeSign>>, <<"R", "s">>}

Dollar == <<"$">>

\* float(s) returns, for s over digits, ".", "," , spaces and letters other
\* than e, E, i, n, f, a: surrounding whitespace aside, digits with at most
\* one "." and at least one digit
FloatOk(s) ==
    LET t == Strip(s)
    IN  /\ \A i \in 1..Len(t) : t[i] \in Digit \/ t[i] = "."
        /\ \E i \in 1..Len(t) : t[i] \in Digit
        /\ Cardinality({i \in 1..Len(t) : t[i] = "."}) <= 1

DigitValue(c) == CHOOSE v \in 0..9 : <<"0", "1", "2", "3", "4", "5", "6", "7", "8", "9">>[v + 1] = c

RECURSIVE DigitsValue(_)
DigitsValue(s) ==
    IF s = <<>> THEN 0
    ELSE 10 * DigitsValue(SubSeq(s, 1, Len(s) - 1)) + DigitValue(s[Len(s)])

RECURSIVE Pow10(_)
Pow10(k) == IF k = 0 THEN 1 ELSE 10 * Pow10(k - 1)

\* float(s) as the fraction num / den, for a FloatOk s
FloatOf(s) ==
    LET t == Strip(s)
        dots == {i \in 1..Len(t) : t[i] = "."}
        decimals == IF dots = {} THEN 0 ELSE Len(t) - SetMin(dots)
    IN  [num |-> DigitsValue(RemoveChar(t, ".")), den |-> Pow10(decimals)]

RECURSIVE NatToText(_)
NatToText(n) ==
    IF n < 10 THEN <<<<"0", "1", "2", "3", "4", "5", "6", "7", "8", "9">>[n + 1]>>
    ELSE NatToText(n \div 10) \o NatToText(n % 10)

\* round(num / den) for num >= 0, den > 0, a tie going to the even neighbour
RoundDiv(num, den) ==
    LET q == num \div den
        r == num % den
    IN  IF 2 * r > den \/ (2 * r = den /\ q % 2 = 1) THEN q + 1 ELSE q

\* f"{x:.2f}" for the fraction x >= 0.  When x lies exactly between two
\* hundredths the float's own rounding error decides in the code (500 *
\* 0.00359 prints as 1.79); the prices of this model give no such x.
Format2f(x) ==
    LET h == IF x.den % 100 = 0
             THEN RoundDiv(x.num, x.den \div 100)
             ELSE RoundDiv(100 * x.num, x.den)
    IN  NatToText(h \div 100) \o <<".">> \o NatToText((h % 100) \div 10) \o NatToText(h % 10)

\* whether the try block of _handle_currency_conversion raises: only
\* float(price) can, get_live_exchange_rate never does
ConversionRaises(price) == ~FloatOk(price)

\* whether _handle_currency_conversion asks for the exchange rate
NeedsConversion(price, currency_symbol) ==
    price # NotFound /\ currency_symbol \in NonUsdSymbols

\* the pair _handle_currency_conversion returns, given the API's answer
handle_currency_conversion(price, currency_symbol, response) ==
    IF NeedsConversion(price, currency_symbol) /\ ~ConversionRaises(price)
    THEN LET rate == get_live_exchange_rate(response)
             f == FloatOf(price)
         IN  [price  |-> Format2f([num |-> f.num * rate.num, den |-> f.den * rate.den]),
              symbol |-> Dollar]
    ELSE [price |-> price, symbol |-> currency_symbol]

\* an element the page does not have
Absent == [absent |-> TRUE]

\* The price markup of a page: hidden is the text of the aok-offscreen span
\* inside the price div (None: no such div or span); main is Absent or the
\* priceToPay span with the texts of its symbol, whole and fraction spans
\* (None: no such span).
\* (price, currency_symbol) before conversion, or Absent when no price
\* element gives one
RawPrice(p) ==
    LET hid == extract_currency(Strip(p.hidden))
    IN  IF p.hidden # None /\ hid.price # NotFound THEN hid
        ELSE IF p.main # Absent /\ p.main.whole # None /\ p.main.fraction # None
        THEN [symbol |-> IF p.main.symbol = None THEN Dollar ELSE Strip(p.main.symbol),
              price  |-> RemoveChar(RemoveChar(Strip(p.main.whole), ","), ".")
                             \o <<".">> \o Strip(p.main.fraction)]
        ELSE Absent

\* whether _extract_price issues the exchange-rate request on this markup
PriceAsksRate(p) ==
    RawPrice(p) # Absent /\ NeedsConversion(RawPrice(p).price, RawPrice(p).symbol)

extract_price(p, response) ==
    IF RawPrice(p) = Absent THEN [price |-> NotFound, symbol |-> Dollar]
    ELSE handle_currency_conversion(RawPrice(p).price, RawPrice(p).symbol, response)

\* scrape(): price=f"{currency_symbol}{price}" if price != "Not found"
ProductPrice(pr) == IF pr.price # NotFound THEN pr.symbol \o pr.price ELSE NotFound

RateRequest == [kind |-> "rate", url |-> <<"https://api.exchangerate-api.com/v4/latest/USD">>]

(***************************************************************************)
(* scraper.py: _extract_images                                             *)
(***************************************************************************)

\* MAX_IMAGES of config.py
MAX_IMAGES == 10

\* The atoms the code looks for in an image URL
Http == "http"

SizeMarker == "._SL"

\* f"{base_url}._SL1500_"
HighResSuffix == <<SizeMarker, "1500_">>

\* An <img> of the page, in document order, is a record:
\*   landing    it has id landingImage
\*   dynamic    it has class a-dynamic-image
\*   wrapped    it stands inside #imgTagWrapperId
\*   src, data_src, old_hires   the attribute's value, None when absent
\*   dyn        the data-a-dynamic-image attribute: Absent, or whether its
\*              value is JSON for an object, and that object's keys in order
\* whether selector k of image_selectors matches it
Selects(k, img) ==
    CASE k = 1 -> img.landing
      [] k = 2 -> img.old_hires # None
      [] k = 3 -> img.dynamic
      [] k = 4 -> img.dyn # Absent
      [] k = 5 -> img.wrapped

\* the elements in the order the two loops visit them: selector by selector,
\* each selector's matches in document order
RECURSIVE Visits(_, _)
Visits(k, imgs) ==
    IF k > 5 THEN <<>>
    ELSE SelectSeq(imgs, LAMBDA e : Selects(k, e)) \o Visits(k + 1, imgs)

\* Python's truth of a str or None
Truthy(s) == s # None /\ s # <<>>

\* a or b
Or(a, b) == IF Truthy(a) THEN a ELSE b

\* src as lines 144-152 leave it
ResolveSrc(img) ==
    LET src == Or(img.src, Or(img.data_src, img.old_hires))
    IN  IF ~Truthy(src) /\ img.dyn # Absent /\ img.dyn.object /\ img.dyn.keys # <<>>
        THEN img.dyn.keys[1]
        ELSE src

\* x in seq, for a list
InList(seq, x) == \E i \in 1..Len(seq) : seq[i] = x

\* src.split('._SL')[0] followed by the suffix
HighRes(src) ==
    LET at == SetMin({i \in 1..Len(src) : src[i] = SizeMarker})
    IN  SubSeq(src, 1, at - 1) \o HighResSuffix

\* what lines 155-160 append for an accepted src
Rewritten(src) == IF InList(src, SizeMarker) THEN HighRes(src) ELSE src

\* whether line 154 accepts src when images is empty
Accepted(src) == Truthy(src) /\ InList(src, Http)

\* the body of the loops, visit by visit
RECURSIVE Collect(_, _)
Collect(visits, images) ==
    IF visits = <<>> THEN images
    ELSE LET src == ResolveSrc(Head(visits))
         IN  Collect(Tail(visits),
                     IF Accepted(src) /\ ~InList(images, src)
                     THEN Append(images, Rewritten(src))
                     ELSE images)

\* a faulty variant of Dedupe: the list is returned as collected
KeepDuplicates(seq) == seq

\* list(dict.fromkeys(images)): the first occurrence of every element
Dedupe(seq) == KeepAt(seq, {i \in 1..Len(seq) : \A j \in 1..(i - 1) : seq[j] # seq[i]})

extract_images(imgs) == Dedupe(Collect(Visits(1, imgs), <<>>))

\* images[:MAX_IMAGES]
FirstImages(images) ==
    SubSeq(images, 1, IF Len(images) < MAX_IMAGES THEN Len(images) ELSE MAX_IMAGES)

\* the images and image_count of the Product that scrape() builds
ProductImages(imgs) ==
    [images      |-> FirstImages(extract_images(imgs)),
     image_count |-> Len(FirstImages(extract_images(imgs)))]

(***************************************************************************)
(* models.py: SellerInfo                                                   *)
(***************************************************************************)

\* SellerInfo.__init__
NewSellerInfo ==
    [seller_name            |-> NotFound,
     seller_store_url       |-> NotFound,
     seller_rating          |-> NotFound,
     seller_reviews         |-> NotFound,
     seller_since           |-> NotFound,
     positive_feedback      |-> NotFound,
     shipped_by             |-> NotFound,
     sold_by                |-> NotFound,
     seller_description     |-> NotFound,
     seller_id              |-> NotFound,
     is_amazon              |-> FALSE,
     is_fulfilled_by_amazon |-> FALSE,
     lifetime_rating        |-> NotFound,
     lifetime_reviews       |-> NotFound]

\* the twelve attributes of SellerInfo that hold text
StringFields ==
    {"seller_name", "seller_store_url", "seller_rating", "seller_reviews",
     "seller_since", "positive_feedback", "shipped_by", "sold_by",
     "seller_description", "seller_id", "lifetime_rating", "lifetime_reviews"}

(***************************************************************************)
(* scraper.py: _extract_seller_details, stages A to E and G                *)
(***************************************************************************)

\* The product page is a record; of the seller markup it holds
\*   fba_text      whether a text node matches "fulfilled.*amazon" or
\*                 "amazon.*fulfilled"
\*   badge         whether a span of class ac-badge-rectangle is there
\*   amazon_span   whether a span's text is "Amazon.com" in any case
\*   buybox        the text, pieces joined by " ", of the first of the divs
\*                 merchant-info, sellerProfileTriggerId, availability; None
\*                 without any
\*   seller_link   the a#sellerProfileTriggerId: Absent or [text, href]
\*   byline        the a#bylineInfo: Absent or [text, href]
\*   feedback_link the text of the first link whose href holds "feedback"
\*   bullets       the <li> texts of div#detailBullets_feature_div
\* An href is None when the attribute is missing.

AmazonCom == <<"A", "m", "a", "z", "o", "n", ".", "c", "o", "m">>

\* a faulty variant of StageA: the fulfilled-by flag is raised whatever the
\* search for the text gave
StageAAlwaysFulfilled(si, page) ==
    IF page.badge /\ page.amazon_span
    THEN [si EXCEPT !.seller_name = AmazonCom, !.sold_by = AmazonCom,
                    !.shipped_by = AmazonCom, !.is_amazon = TRUE,
                    !.is_fulfilled_by_amazon = TRUE]
    ELSE [si EXCEPT !.is_fulfilled_by_amazon = TRUE]

\* lines 175-187
StageA(si, page) ==
    LET fba == IF page.fba_text THEN [si EXCEPT !.is_fulfilled_by_amazon = TRUE] ELSE si
    IN  IF page.badge /\ page.amazon_span
        THEN [fba EXCEPT !.seller_name = AmazonCom, !.sold_by = AmazonCom,
                         !.shipped_by = AmazonCom, !.is_amazon = TRUE]
        ELSE fba

\* text[i:] starts with word, whatever the case of the text (word is lower)
MatchAtCI(text, i, word) ==
    /\ i + Len(word) - 1 <= Len(text)
    /\ LowerStr(SubSeq(text, i, i + Len(word) - 1)) = word

\* (?:\s*and|$) with re.I matches at position j of text by its first branch
AndFollows(text, j) ==
    LET rest == From(text, j)
    IN  MatchAtCI(rest, LeadingSpaces(rest) + 1, <<"a", "n", "d">>)

\* Where group 1 of label\s*(.+?)(?:\s*and|$) starts when label matches at i:
\* after all the whitespace, or on the last whitespace character when
\* nothing else is left; 0 when the pattern cannot match at i
GroupStart(text, i, label) ==
    LET after == i + Len(label)
        k == LeadingSpaces(From(text, after))
    IN  IF after + k <= Len(text) THEN after + k
        ELSE IF k >= 1 THEN Len(text)
        ELSE 0

\* re.search(label + r'\s*(.+?)(?:\s*and|$)', text, re.I).group(1), None
\* without a match: the shortest text that "and" or the end follows
SearchLabelled(text, label) ==
    LET starts == {i \in 1..Len(text) :
                      MatchAtCI(text, i, label) /\ GroupStart(text, i, label) # 0}
    IN  IF starts = {} THEN None
        ELSE LET p == GroupStart(text, SetMin(starts), label)
                 e == SetMin({e \in p..Len(text) : e = Len(text) \/ AndFollows(text, e + 1)})
             IN  SubSeq(text, p, e)

SoldByLabel == <<"s", "o", "l", "d", " ", "b", "y">>

ShippedByLabel == <<"s", "h", "i", "p", "p", "e", "d", " ", "b", "y">>

Amazon == <<"a", "m", "a", "z", "o", "n">>

\* line 236: 'amazon' in seller_name.lower()
IsAmazonName(seller_name) == Contains(LowerStr(seller_name), Amazon)

\* _extract_seller_from_buybox
StageB(si, page) ==
    IF page.buybox = None THEN si
    ELSE LET sold == SearchLabelled(page.buybox, SoldByLabel)
             shipped == SearchLabelled(page.buybox, ShippedByLabel)
             seller_name == Strip(SubParens(Strip(sold)))
             named == IF sold = None THEN si
                      ELSE [si EXCEPT !.sold_by = seller_name,
                                      !.seller_name = seller_name,
                                      !.is_amazon = IsAmazonName(seller_name)]
         IN  IF shipped = None THEN named
             ELSE [named EXCEPT !.shipped_by = Strip(shipped)]

\* BASE_URL of config.py
BaseUrl == <<"https://www.amazon.com">>

\* the atoms that open an absolute URL
Origins == {"https://www.amazon.com", "https://stores.example"}

\* urljoin(base_url, href) for an href that is empty, absolute, or a path
\* from the root
UrlJoin(base, href) ==
    IF href = <<>> THEN base
    ELSE IF href[1] \in Origins THEN href
    ELSE base \o href

\* urlparse(url).query: what follows the first "?", up to a "#"
QueryOf(url) ==
    LET marks == {i \in 1..Len(url) : url[i] = "?"}
        hashes == {i \in 1..Len(url) : url[i] = "#"}
        last == IF hashes = {} THEN Len(url) ELSE SetMin(hashes) - 1
    IN  IF marks = {} \/ SetMin(marks) > last THEN <<>>
        ELSE SubSeq(url, SetMin(marks) + 1, last)

\* the first of the "&"-separated pieces of query that is name=value with
\* the given name and a value that is not blank (parse_qs drops blank
\* values); None without such a piece
RECURSIVE FirstValue(_, _)
FirstValue(query, name) ==
    IF query = <<>> THEN None
    ELSE LET amps == {i \in 1..Len(query) : query[i] = "&"}
             stop == IF amps = {} THEN Len(query) + 1 ELSE SetMin(amps)
             piece == SubSeq(query, 1, stop - 1)
         IN  IF Len(piece) >= 3 /\ piece[1] = name /\ piece[2] = "="
             THEN From(piece, 3)
             ELSE FirstValue(From(query, stop + 1), name)

\* parse_qs(urlparse(url).query).get('seller', [None])[0]
get_seller_id_from_url(url) == FirstValue(QueryOf(url), "seller")

\* s.replace(word, ''), every occurrence from the left
RECURSIVE RemoveAll(_, _)
RemoveAll(s, word) ==
    IF Len(s) < Len(word) THEN s
    ELSE IF StartsWith(s, word) THEN RemoveAll(From(s, Len(word) + 1), word)
    ELSE <<s[1]>> \o RemoveAll(Tail(s), word)

VisitThe == <<"V", "i", "s", "i", "t", " ", "t", "h", "e">>

Store == <<"S", "t", "o", "r", "e">>

\* _extract_seller_from_links, the seller profile link (lines 246-258)
ProfileLink(si, link) ==
    IF link = Absent THEN si
    ELSE LET seller_name == Strip(SubByPrefix(Strip(link.text)))
             named == IF Truthy(Strip(link.text)) /\ si.seller_name = NotFound
                      THEN [si EXCEPT !.seller_name = seller_name, !.sold_by = seller_name]
                      ELSE si
         IN  IF link.href = None THEN named
             ELSE [named EXCEPT
                      !.seller_store_url = UrlJoin(BaseUrl, link.href),
                      !.seller_id = get_seller_id_from_url(UrlJoin(BaseUrl, link.href))]

\* _extract_seller_from_links, the brand or store link (lines 261-272)
BylineLink(si, link) ==
    IF link = Absent THEN si
    ELSE LET store_text == Strip(link.text)
             store_name == Strip(RemoveAll(RemoveAll(store_text, VisitThe), Store))
             named == IF /\ Contains(store_text, VisitThe)
                         /\ Contains(store_text, Store)
                         /\ Truthy(store_name)
                         /\ si.seller_name = NotFound
                      THEN [si EXCEPT !.seller_name = store_name]
                      ELSE si
         IN  IF link.href # None /\ named.seller_store_url = NotFound
             THEN [named EXCEPT !.seller_store_url = UrlJoin(BaseUrl, link.href)]
             ELSE named

\* _extract_seller_from_links
StageC(si, page) == BylineLink(ProfileLink(si, page.seller_link), page.byline)

OutOf == <<"o", "u", "t", " ", "o", "f">>

\* text[i..e] matches \d+\.?\d* and \s*out of follows it
RatingMatch(text, i, e) ==
    /\ i <= e
    /\ text[i] \in Digit
    /\ \A k \in i..e : text[k] \in Digit \/ text[k] = "."
    /\ Cardinality({k \in i..e : text[k] = "."}) <= 1
    /\ LET rest == From(text, e + 1)
       IN  StartsWith(From(rest, LeadingSpaces(rest) + 1), OutOf)

\* re.search(r'(\d+\.?\d*)\s*out of', text).group(1), None without a match
RatingBeforeOutOf(text) ==
    LET hits == {<<i, e>> \in (1..Len(text)) \X (1..Len(text)) : RatingMatch(text, i, e)}
    IN  IF hits = {} THEN None
        ELSE LET i == SetMin({h[1] : h \in hits})
                 e == CHOOSE e \in 1..Len(text) : <<i, e>> \in hits
             IN  SubSeq(text, i, e)

\* re.search(pattern, text).group(1) for a pattern that takes a first
\* character of one class and then all that follow of another: None without
\* a first character
FirstRun(text, firsts, nexts) ==
    LET hits == {i \in 1..Len(text) : text[i] \in firsts}
    IN  IF hits = {} THEN None
        ELSE LET i == SetMin(hits)
                 ends == {j \in i..Len(text) : \A k \in (i + 1)..j : text[k] \in nexts}
             IN  SubSeq(text, i, SetMax(ends))

\* re.search(r'(\d+[\d,]*)', text).group(1)
FirstCount(text) == FirstRun(text, Digit, Digit \cup {","})

\* _extract_seller_feedback
StageD(si, page) ==
    IF page.feedback_link = None THEN si
    ELSE LET feedback_text == Strip(page.feedback_link)
             rating == RatingBeforeOutOf(feedback_text)
             count == FirstCount(feedback_text)
             rated == IF rating = None THEN si ELSE [si EXCEPT !.seller_rating = rating]
         IN  IF count = None THEN rated ELSE [rated EXCEPT !.seller_reviews = count]

SoldByColon == <<"S", "o", "l", "d", " ", "b", "y", ":">>

\* re.search(r'Sold by:\s*(.+)', text).group(1), None without a match: all
\* that follows the first "Sold by:" and its whitespace
SoldByOfBullet(text) ==
    LET starts == {i \in 1..Len(text) :
                      /\ StartsWith(From(text, i), SoldByColon)
                      /\ Truthy(Strip(From(text, i + Len(SoldByColon))))}
    IN  IF starts = {} THEN None
        ELSE LET rest == From(text, SetMin(starts) + Len(SoldByColon))
             IN  From(rest, LeadingSpaces(rest) + 1)

\* a faulty variant of StageEBullets: a bullet's seller replaces the name
\* that an earlier stage found
RECURSIVE StageEBulletsOverwritingName(_, _)
StageEBulletsOverwritingName(si, bullets) ==
    IF bullets = <<>> THEN si
    ELSE LET text == Strip(Head(bullets))
             found == SoldByOfBullet(text)
             matched == Contains(text, SoldByColon) /\ found # None
             named == IF matched
                      THEN [si EXCEPT !.sold_by = Strip(found), !.seller_name = Strip(found)]
                      ELSE si
         IN  StageEBulletsOverwritingName(named, Tail(bullets))

\* lines 198-205 for the bullets in order
RECURSIVE StageEBullets(_, _)
StageEBullets(si, bullets) ==
    IF bullets = <<>> THEN si
    ELSE LET text == Strip(Head(bullets))
             found == SoldByOfBullet(text)
             matched == Contains(text, SoldByColon) /\ found # None
             sold == IF matched THEN [si EXCEPT !.sold_by = Strip(found)] ELSE si
             named == IF matched /\ sold.seller_name = NotFound
                      THEN [sold EXCEPT !.seller_name = sold.sold_by]
                      ELSE sold
         IN  StageEBullets(named, Tail(bullets))

\* lines 195-205
StageE(si, page) == StageEBullets(si, page.bullets)

\* a faulty variant of NeedsSellerPage: the operator flag is not looked at
NeedsSellerPageForAnyStore(si) == si.seller_store_url # NotFound

\* line 208
NeedsSellerPage(si) == si.seller_store_url # NotFound /\ ~si.is_amazon

\* lines 212-213
StageG(si) ==
    [si EXCEPT !.seller_name = clean_seller_name(si.seller_name),
               !.sold_by = clean_seller_name(si.sold_by)]

(***************************************************************************)
(* scraper.py: _scrape_seller_page                                         *)
(***************************************************************************)

\* The seller page is a record:
\*   fragments   the a-state scripts that mention ratingCount and star5 and
\*               parse as JSON (script_data_list), in document order
\*   rating_year, effective, count365, percent_five_star
\*               the text of the element the code looks up, None when the
\*               element is not there
\*   text_nodes  the text nodes of the page, in document order
\* A fragment is a record:
\*   shape       "dict": a JSON object with numbers; "null_stars": an object
\*               whose star values are null; "text_count": an object whose
\*               ratingCount is a string; "list": a JSON array
\*   has_count, has_star5   whether the object has the key itself
\*   ratingCount, stars     the values: stars[n] is star<n>, 0 when missing

\* data.get('ratingCount', 0)
RatingCountOf(f) == IF f.has_count THEN f.ratingCount ELSE 0

\* the lower and upper ratingCount of a 12-month record
TwelveMonthLow == 400

TwelveMonthHigh == 500

\* a faulty variant of InTwelveMonthRange: the lower end is left out
InOpenTwelveMonthRange(count) == TwelveMonthLow < count /\ count <= TwelveMonthHigh

\* 400 <= rating_count <= 500
InTwelveMonthRange(count) == TwelveMonthLow <= count /\ count <= TwelveMonthHigh

\* the index of twelve_month_data in script_data_list, 0 for None
TwelveMonthIndex(frags) ==
    LET hits == {i \in 1..Len(frags) : InTwelveMonthRange(RatingCountOf(frags[i]))}
    IN  IF hits = {} THEN 0 ELSE SetMin(hits)

\* the ratingCount a lifetime record must exceed
LifetimeFloor == 500

\* the index of lifetime_data in script_data_list, 0 for None: max() gives
\* the first fragment with the greatest ratingCount
LifetimeIndex(frags) ==
    IF frags = <<>> THEN 0
    ELSE LET top == SetMax({RatingCountOf(frags[i]) : i \in 1..Len(frags)})
         IN  IF top > LifetimeFloor
             THEN SetMin({i \in 1..Len(frags) : RatingCountOf(frags[i]) = top})
             ELSE 0

\* Whether lines 318-333 raise: data.get on a list, or a comparison of a
\* string ratingCount with a number (in the range test, in max() or in the
\* test against 500)
SelectionRaises(frags) ==
    \E i \in 1..Len(frags) : frags[i].shape \in {"list", "text_count"}

WeightedSum(f) ==
    f.stars[5] * 5 + f.stars[4] * 4 + f.stars[3] * 3 + f.stars[2] * 2 + f.stars[1] * 1

TotalPercent(f) == f.stars[5] + f.stars[4] + f.stars[3] + f.stars[2] + f.stars[1]

\* f"{x:.1f}" formats the double nearest to x.  For x = (2q + 1) / 20, half
\* way between the tenths q and q + 1, that double lies above x for these q
\* of 10..49 and below x, or on it with q even, for the others.
TieRoundsUp == {10, 13, 15, 17, 18, 23, 24, 27, 28, 29,
                33, 34, 37, 38, 39, 41, 44, 46, 47, 49}

\* a faulty variant of Tenths: the average is cut, not rounded
TenthsCut(weighted_sum, total_percent) == (10 * weighted_sum) \div total_percent

\* the tenths that f"{weighted_sum / total_percent:.1f}" shows
Tenths(weighted_sum, total_percent) ==
    LET q == (10 * weighted_sum) \div total_percent
        r == (10 * weighted_sum) % total_percent
    IN  IF 2 * r > total_percent \/ (2 * r = total_percent /\ q \in TieRoundsUp)
        THEN q + 1 ELSE q

TenthsText(n) == NatToText(n \div 10) \o <<".">> \o NatToText(n % 10)

\* Lines 335-357 and 362-385 on the record f: the fields are written one
\* after the other, and arithmetic on a null star raises in between
ApplyRecord(si, f, rating_field, reviews_field) ==
    LET counted == IF f.has_count
                   THEN [si EXCEPT ![reviews_field] = NatToText(f.ratingCount)]
                   ELSE si
    IN  IF ~f.has_star5 THEN [si |-> counted, raised |-> FALSE]
        ELSE IF f.shape = "null_stars" THEN [si |-> counted, raised |-> TRUE]
        ELSE IF TotalPercent(f) > 0
        THEN [si |-> [counted EXCEPT ![rating_field] =
                          TenthsText(Tenths(WeightedSum(f), TotalPercent(f)))],
              raised |-> FALSE]
        ELSE [si |-> counted, raised |-> FALSE]

\* lines 315-388: the SellerInfo they leave and whether they raised
ApplyRatingData(si, frags) ==
    IF SelectionRaises(frags) THEN [si |-> si, raised |-> TRUE]
    ELSE LET t == TwelveMonthIndex(frags)
             l == LifetimeIndex(frags)
             a == IF t # 0
                  THEN ApplyRecord(si, frags[t], "seller_rating", "seller_reviews")
                  ELSE [si |-> si, raised |-> FALSE]
         IN  IF a.raised \/ l = 0 THEN a
             ELSE ApplyRecord(a.si, frags[l], "lifetime_rating", "lifetime_reviews")

\* "4.9", the rating that lets the effective-period element overwrite
SuspectRating == <<"4", ".", "9">>

\* lines 390-396: the rating-year element
ApplyRatingYear(si, page) ==
    IF page.rating_year # None /\ Truthy(Strip(page.rating_year))
    THEN [si EXCEPT !.seller_rating = Strip(page.rating_year)]
    ELSE si

\* a faulty variant of ApplyEffectivePeriod: only the sentinel is replaced
ApplyEffectivePeriodToSentinel(si, page) ==
    IF /\ si.seller_rating = NotFound
       /\ page.effective # None
       /\ Truthy(Strip(page.effective))
    THEN [si EXCEPT !.seller_rating = Strip(page.effective)]
    ELSE si

\* lines 399-404: the effective-period element
ApplyEffectivePeriod(si, page) ==
    IF /\ si.seller_rating \in {SuspectRating, NotFound}
       /\ page.effective # None
       /\ Truthy(Strip(page.effective))
    THEN [si EXCEPT !.seller_rating = Strip(page.effective)]
    ELSE si

\* lines 407-412: the review-count element
ApplyReviewCount(si, page) ==
    IF si.seller_reviews = NotFound /\ page.count365 # None
    THEN [si EXCEPT !.seller_reviews = Strip(page.count365)]
    ELSE si

\* the digit runs of s that a "%" follows, as (first, last) positions
PercentRuns(s) ==
    {<<i, j>> \in (1..Len(s)) \X (1..Len(s)) :
        /\ i <= j
        /\ \A k \in i..j : s[k] \in Digit
        /\ j < Len(s) /\ s[j + 1] = "%"}

Positive == <<"p", "o", "s", "i", "t", "i", "v", "e">>

\* re.compile(r'\d+%\s*positive') finds a match in the text node s
MatchesPercentPositive(s) ==
    \E run \in PercentRuns(s) :
        LET rest == From(s, run[2] + 2)
        IN  StartsWith(From(rest, LeadingSpaces(rest) + 1), Positive)

\* re.search(r'(\d+%)', s).group(1), None without a match: the leftmost
\* start, and from it all the digits up to the "%"
FirstPercent(s) ==
    IF PercentRuns(s) = {} THEN None
    ELSE LET i == SetMin({run[1] : run \in PercentRuns(s)})
             j == SetMin({run[2] : run \in {r \in PercentRuns(s) : r[1] = i}})
         IN  SubSeq(s, i, j + 1)

\* lines 414-422: the positive-feedback element, else the scan of the text
ApplyPositiveFeedback(si, page) ==
    LET nodes == SelectSeq(page.text_nodes, MatchesPercentPositive)
    IN  IF page.percent_five_star # None
        THEN [si EXCEPT !.positive_feedback = Strip(page.percent_five_star)]
        ELSE IF ~Truthy(si.positive_feedback) /\ nodes # <<>> /\ FirstPercent(nodes[1]) # None
        THEN [si EXCEPT !.positive_feedback = FirstPercent(nodes[1])]
        ELSE si

SellerRequest(url) == [kind |-> "seller", url |-> url]

\* lines 290-298: the request is sent and answered by one of responses; a
\* response is [raises, status, page].  Anything but a 200 ends the method.
FetchSellerPage(responses) ==
    /\ pc = "F_request"
    /\ \E r \in responses :
        /\ net' = Append(net, SellerRequest(seller_info.seller_store_url))
        /\ IF ~r.raises /\ r.status = 200
           THEN seller_soup' = r.page /\ pc' = "F_json"
           ELSE seller_soup' = seller_soup /\ pc' = "G"
    /\ UNCHANGED <<page_response, soup, fields, seller_info, product, arg, ret>>

\* lines 300-388; an exception is caught on line 424 and ends the method
ScrapeRatingData ==
    /\ pc = "F_json"
    /\ LET done == ApplyRatingData(seller_info, seller_soup.fragments)
       IN  /\ seller_info' = done.si
           /\ pc' = IF done.raised THEN "G" ELSE "F_a"
    /\ UNCHANGED <<page_response, soup, fields, seller_soup, net, product, arg, ret>>

ScrapeRatingYear ==
    /\ pc = "F_a"
    /\ seller_info' = ApplyRatingYear(seller_info, seller_soup)
    /\ pc' = "F_b"
    /\ UNCHANGED <<page_response, soup, fields, seller_soup, net, product, arg, ret>>

ScrapeEffectivePeriod ==
    /\ pc = "F_b"
    /\ seller_info' = ApplyEffectivePeriod(seller_info, seller_soup)
    /\ pc' = "F_c"
    /\ UNCHANGED <<page_response, soup, fields, seller_soup, net, product, arg, ret>>

ScrapeReviewCount ==
    /\ pc = "F_c"
    /\ seller_info' = ApplyReviewCount(seller_info, seller_soup)
    /\ pc' = "F_feedback"
    /\ UNCHANGED <<page_response, soup, fields, seller_soup, net, product, arg, ret>>

ScrapePositiveFeedback ==
    /\ pc = "F_feedback"
    /\ seller_info' = ApplyPositiveFeedback(seller_info, seller_soup)
    /\ pc' = "G"
    /\ UNCHANGED <<page_response, soup, fields, seller_soup, net, product, arg, ret>>

(***************************************************************************)
(* scraper.py: scrape and the product fields                               *)
(***************************************************************************)

\* ' '.join(text.strip().split())
clean_text(text) ==
    IF ~Truthy(text) THEN <<>>
    ELSE LET s == Strip(text)
         IN  KeepAt(s, {i \in 1..Len(s) : ~(IsSpace(s[i]) /\ IsSpace(s[i - 1]))})

extract_title(page) ==
    IF page.title = None THEN NotFound ELSE clean_text(page.title)

extract_brand(page) ==
    IF page.byline = Absent THEN NotFound ELSE clean_text(page.byline.text)

\* re.search(r'(\d+\.?\d*)', text).group(1), None without a match
FirstNumber(text) ==
    LET whole == FirstRun(text, Digit, Digit)
        at == SetMin({i \in 1..Len(text) : text[i] \in Digit})
        rest == From(text, at + Len(whole))
    IN  IF whole = None THEN None
        ELSE IF rest # <<>> /\ rest[1] = "."
        THEN whole \o <<".">> \o (IF FirstRun(Tail(rest), Digit, Digit) # None
                                     /\ StartsWith(Tail(rest), FirstRun(Tail(rest), Digit, Digit))
                                  THEN FirstRun(Tail(rest), Digit, Digit)
                                  ELSE <<>>)
        ELSE whole

extract_rating(page) ==
    LET rating_text == IF page.rating_alt = None THEN NotFound ELSE Strip(page.rating_alt)
    IN  IF FirstNumber(rating_text) = None THEN NotFound ELSE FirstNumber(rating_text)

extract_reviews(page) ==
    IF page.reviews = None THEN NotFound ELSE clean_text(page.reviews)

DescriptionLimit == 500

extract_description(page) ==
    LET description == IF page.description = None THEN NotFound ELSE Strip(page.description)
    IN  SubSeq(description, 1,
               IF Len(description) < DescriptionLimit THEN Len(description) ELSE DescriptionLimit)

\* scrape(): rating=f"{rating}/5" if rating != "Not found"
ProductRating(rating) ==
    IF rating # NotFound THEN rating \o <<"/", "5">> ELSE NotFound

\* what scrape() returns when it returns None
NoProduct == [none |-> TRUE]

\* Product(...) of lines 47-56 and models.py
NewProduct(f, si) ==
    [title          |-> f.title,
     brand          |-> f.brand,
     price          |-> ProductPrice(f.price),
     rating         |-> ProductRating(f.rating),
     reviews        |-> f.reviews,
     description    |-> f.description,
     images         |-> FirstImages(f.images),
     image_count    |-> Len(FirstImages(f.images)),
     seller_details |-> si]

ProductRequest == [kind |-> "product", url |-> <<"https://www.amazon.com", "/dp/B01">>]

\* a faulty variant of PageOk: any answer is parsed
PageAnswered(r) == ~r.raises

\* lines 31-35: the request returned and its status code is 200
PageOk(r) == ~r.raises /\ r.status = 200

\* lines 31-37: the product page is requested and answered by one of
\* responses, each [raises, status, page]; an exception or a status other
\* than 200 makes scrape() return None
FetchProductPage(responses) ==
    /\ pc = "start"
    /\ \E r \in responses :
        /\ net' = Append(net, ProductRequest)
        /\ page_response' = [raises |-> r.raises, status |-> r.status]
        /\ IF PageOk(r)
           THEN soup' = r.page /\ pc' = "fields" /\ product' = product
           ELSE soup' = soup /\ pc' = "done" /\ product' = NoProduct
    /\ UNCHANGED <<fields, seller_soup, seller_info, arg, ret>>

\* lines 40-46: the product fields; _extract_price may ask the
\* exchange-rate API, which answers with one of rates
ExtractFields(rates) ==
    /\ pc = "fields"
    /\ \E rate \in rates :
        fields' = [title       |-> extract_title(soup),
                   brand       |-> extract_brand(soup),
                   price       |-> extract_price(soup.price, rate),
                   rating      |-> extract_rating(soup),
                   reviews     |-> extract_reviews(soup),
                   images      |-> extract_images(soup.imgs),
                   description |-> extract_description(soup)]
    /\ net' = IF PriceAsksRate(soup.price) THEN Append(net, RateRequest) ELSE net
    /\ pc' = "A"
    /\ UNCHANGED <<page_response, soup, seller_soup, seller_info, product, arg, ret>>

\* lines 172-187
ExtractAmazonMarks ==
    /\ pc = "A"
    /\ seller_info' = StageA(NewSellerInfo, soup)
    /\ pc' = "B"
    /\ UNCHANGED <<page_response, soup, fields, seller_soup, net, product, arg, ret>>

\* line 190
ExtractSellerFromBuybox ==
    /\ pc = "B"
    /\ seller_info' = StageB(seller_info, soup)
    /\ pc' = "C"
    /\ UNCHANGED <<page_response, soup, fields, seller_soup, net, product, arg, ret>>

\* line 191
ExtractSellerFromLinks ==
    /\ pc = "C"
    /\ seller_info' = StageC(seller_info, soup)
    /\ pc' = "D"
    /\ UNCHANGED <<page_response, soup, fields, seller_soup, net, product, arg, ret>>

\* line 192
ExtractSellerFeedback ==
    /\ pc = "D"
    /\ seller_info' = StageD(seller_info, soup)
    /\ pc' = "E"
    /\ UNCHANGED <<page_response, soup, fields, seller_soup, net, product, arg, ret>>

\* lines 195-209: the detail bullets, then the decision to scrape the
\* seller page
ExtractSoldByFromBullets ==
    /\ pc = "E"
    /\ seller_info' = StageE(seller_info, soup)
    /\ pc' = IF NeedsSellerPage(seller_info') THEN "F_request" ELSE "G"
    /\ UNCHANGED <<page_response, soup, fields, seller_soup, net, product, arg, ret>>

\* lines 212-213
CleanNames ==
    /\ pc = "G"
    /\ seller_info' = StageG(seller_info)
    /\ pc' = "assemble"
    /\ UNCHANGED <<page_response, soup, fields, seller_soup, net, product, arg, ret>>

\* lines 47-58
ReturnProduct ==
    /\ pc = "assemble"
    /\ product' = NewProduct(fields, seller_info)
    /\ pc' = "done"
    /\ UNCHANGED <<page_response, soup, fields, seller_soup, net, seller_info, arg, ret>>

(***************************************************************************)
(* Functions applied on their own to inputs drawn from bounded sets        *)
(***************************************************************************)

NoScrape ==
    /\ page_response = Idle /\ soup = Idle /\ fields = Idle /\ seller_soup = Idle
    /\ net = <<>> /\ seller_info = Idle /\ product = Idle

MaxNameLen == 4

NameAlphabet == {"b", "Y", " ", "(", ")", "a"}

\* "(Store) by Acme Corp"
StoreByAcmeCorp ==
    <<"(", "S", "t", "o", "r", "e", ")", " ", "b", "y", " ",
      "A", "c", "m", "e", " ", "C", "o", "r", "p">>

AcmeCorp == <<"A", "c", "m", "e", " ", "C", "o", "r", "p">>

\* "Byron Books"
ByronBooks == <<"B", "y", "r", "o", "n", " ", "B", "o", "o", "k", "s">>

\* names of 100, 101 and 150 characters
LongName(n) == [i \in 1..n |-> "a"]

NameInputs ==
    TextsUpTo(NameAlphabet, MaxNameLen)
        \cup {NotFound, StoreByAcmeCorp, AcmeCorp, ByronBooks,
              LongName(NameLimit), LongName(NameLimit + 1), LongName(150)}

InitCleanName ==
    /\ pc = "call"
    /\ arg \in NameInputs
    /\ ret = Nil
    /\ NoScrape

CallCleanSellerName ==
    /\ pc = "call"
    /\ pc' = "done"
    /\ ret' = clean_seller_name(arg)
    /\ UNCHANGED <<page_response, soup, fields, seller_soup, net, seller_info, product, arg>>

SpecCleanName == InitCleanName /\ [][CallCleanSellerName]_vars

MaxPriceLen == 4

PriceAlphabet == {"R", "s", "$", "1", ".", ",", " "}

\* "PKR 1,234.50"
Pkr1234 == <<"P", "K", "R", " ", "1", ",", "2", "3", "4", ".", "5", "0">>

\* "no digits"
NoDigits == <<"n", "o", " ", "d", "i", "g", "i", "t", "s">>

\* "Rs. 1,234"
RsDot1234 == <<"R", "s", ".", " ", "1", ",", "2", "3", "4">>

PriceInputs ==
    TextsUpTo(PriceAlphabet, MaxPriceLen) \cup {Pkr1234, NoDigits, RsDot1234}

InitCurrency ==
    /\ pc = "call"
    /\ arg \in PriceInputs
    /\ ret = Nil
    /\ NoScrape

CallExtractCurrency ==
    /\ pc = "call"
    /\ pc' = "done"
    /\ ret' = extract_currency(arg)
    /\ UNCHANGED <<page_response, soup, fields, seller_soup, net, seller_info, product, arg>>

SpecCurrency == InitCurrency /\ [][CallExtractCurrency]_vars

\* the priceToPay spans tried with every hidden text that gives no amount
MainPrices ==
    {[symbol |-> <<"R", "s">>, whole |-> <<"1", ",", "2", "3", "4", ".">>, fraction |-> <<"5", "0">>],
     [symbol |-> <<"R", "s">>, whole |-> <<"1", "2">>, fraction |-> <<"5", ".", "0">>],
     [symbol |-> <<RupeeSign>>, whole |-> <<"7">>, fraction |-> <<>>],
     [symbol |-> None, whole |-> <<"1", "9">>, fraction |-> <<"9", "9">>],
     [symbol |-> <<"$">>, whole |-> <<"1", "9">>, fraction |-> None],
     [symbol |-> <<"P", "K", "R">>, whole |-> None, fraction |-> <<"9", "9">>]}

\* "Rs 1.234.50"
Rs1Dot234Dot50 == <<"R", "s", " ", "1", ".", "2", "3", "4", ".", "5", "0">>

PriceMarkups ==
    {[hidden |-> h, main |-> Absent] :
        h \in PriceInputs \cup {None, Rs1Dot234Dot50, <<RupeeSign, "6", "0", "0">>}}
    \cup {[hidden |-> h, main |-> m] : h \in {None, NoDigits}, m \in MainPrices}

InitPrice ==
    /\ pc = "call"
    /\ arg \in PriceMarkups
    /\ ret = Nil
    /\ NoScrape

\* _extract_price on the markup, the API answering response if asked
CallExtractPrice ==
    /\ pc = "call"
    /\ \E response \in RateResponses :
        /\ ret' = extract_price(arg, response)
        /\ net' = IF PriceAsksRate(arg) THEN Append(net, RateRequest) ELSE net
    /\ pc' = "done"
    /\ UNCHANGED <<page_response, soup, fields, seller_soup, seller_info, product, arg>>

SpecPrice == InitPrice /\ [][CallExtractPrice]_vars

MaxImgs == 3

Img(landing, dynamic, wrapped, src, data_src, old_hires, dyn) ==
    [landing |-> landing, dynamic |-> dynamic, wrapped |-> wrapped,
     src |-> src, data_src |-> data_src, old_hires |-> old_hires, dyn |-> dyn]

\* "http://img/image._SL160_.jpg" and the like
UrlSmall == <<Http, "://img/image", SizeMarker, "160_", ".jpg">>

UrlMedium == <<Http, "://img/image", SizeMarker, "320_", ".jpg">>

UrlHigh == <<Http, "://img/image">> \o HighResSuffix

UrlPlain == <<Http, "s", "://img/other.png">>

UrlRelative == <<"/img/image", SizeMarker, "160_", ".jpg">>

\* a URL whose only "http" stands after the size marker
UrlHttpInTail == <<"//img/image", SizeMarker, "160_", ".jpg?from=", Http, "://ref">>

UrlKey == <<Http, "://img/key", SizeMarker, "500_", ".jpg">>

ImgKinds ==
    {Img(TRUE, TRUE, TRUE, UrlSmall, None, UrlHigh, [object |-> TRUE, keys |-> <<UrlKey>>]),
     Img(FALSE, TRUE, FALSE, <<>>, UrlMedium, None, Absent),
     Img(FALSE, FALSE, TRUE, UrlPlain, None, None, Absent),
     Img(FALSE, FALSE, TRUE, UrlRelative, None, None, Absent),
     Img(FALSE, TRUE, FALSE, None, UrlHttpInTail, None, Absent),
     Img(FALSE, FALSE, FALSE, None, None, None, [object |-> TRUE, keys |-> <<UrlKey, UrlPlain>>]),
     Img(FALSE, FALSE, FALSE, None, None, None, [object |-> FALSE, keys |-> <<>>]),
     Img(FALSE, FALSE, FALSE, None, None, UrlHigh, Absent)}

\* a gallery of n thumbnails with n different URLs
Gallery(n) ==
    [i \in 1..n |->
        Img(FALSE, FALSE, TRUE, <<Http, "://img/">> \o NatToText(i) \o <<SizeMarker, "75_", ".jpg">>,
            None, None, Absent)]

\* the page with the single image "http://img/image._SL160_.jpg"
OneSmallImage == <<Img(TRUE, FALSE, FALSE, UrlSmall, None, None, Absent)>>

ImagePages ==
    UNION {[1..k -> ImgKinds] : k \in 0..MaxImgs}
        \cup {Gallery(MAX_IMAGES), Gallery(MAX_IMAGES + 2), OneSmallImage}

InitImages ==
    /\ pc = "call"
    /\ arg \in ImagePages
    /\ ret = Nil
    /\ NoScrape

\* _extract_images on the page's images, then Product(images=images[:MAX_IMAGES])
CallExtractImages ==
    /\ pc = "call"
    /\ pc' = "done"
    /\ ret' = ProductImages(arg)
    /\ UNCHANGED <<page_response, soup, fields, seller_soup, net, seller_info, product, arg>>

SpecImages == InitImages /\ [][CallExtractImages]_vars

MaxFrags == 3

Frag(shape, has_count, count, has_star5, stars) ==
    [shape |-> shape, has_count |-> has_count, ratingCount |-> count,
     has_star5 |-> has_star5, stars |-> stars]

\* star1..star5 = 2, 3, 5, 10, 80
Stars80 == <<2, 3, 5, 10, 80>>

NoStars == <<0, 0, 0, 0, 0>>

Frag120 == Frag("dict", TRUE, 120, TRUE, Stars80)

Frag450 == Frag("dict", TRUE, 450, TRUE, Stars80)

Frag900 == Frag("dict", TRUE, 900, TRUE, <<0, 0, 0, 1, 3>>)

FragKinds ==
    {Frag120, Frag450, Frag900,
     Frag("dict", TRUE, 400, TRUE, NoStars),
     Frag("dict", TRUE, 500, TRUE, <<1, 0, 0, 0, 1>>),
     Frag("dict", TRUE, 501, TRUE, <<0, 0, 0, 1, 2>>),
     Frag("dict", TRUE, 900, TRUE, NoStars),
     Frag("dict", FALSE, 0, TRUE, Stars80),
     Frag("null_stars", TRUE, 450, TRUE, NoStars),
     Frag("text_count", TRUE, 0, TRUE, Stars80)}

SellerPage(frags, rating_year, effective, count365, percent, nodes) ==
    [fragments |-> frags, rating_year |-> rating_year, effective |-> effective,
     count365 |-> count365, percent_five_star |-> percent, text_nodes |-> nodes]

\* "95% positive in the last 12 months" cut short
NinetyFivePositive ==
    <<"9", "5", "%", " ", "p", "o", "s", "i", "t", "i", "v", "e">>

\* pages with every list of fragments and no other element, and pages with
\* every combination of the other elements
SellerPages ==
    {SellerPage(f, None, None, None, None, <<>>) :
        f \in UNION {[1..k -> FragKinds] : k \in 0..MaxFrags}}
    \cup {SellerPage(f, y, e, c, p, n) :
            f \in {<<>>, <<Frag450>>, <<Frag120, Frag450, Frag900>>},
            y \in {None, <<"4", ".", "7">>},
            e \in {None, <<"4", ".", "8">>, <<" ">>},
            c \in {None, <<"3", "2", "1">>},
            p \in {None, <<"9", "7", "%">>},
            n \in {<<>>, <<NinetyFivePositive>>}}

SellerResponses ==
    {[raises |-> TRUE, status |-> 0, page |-> Idle],
     [raises |-> FALSE, status |-> 503, page |-> Idle]}
    \cup {[raises |-> FALSE, status |-> 200, page |-> p] : p \in SellerPages}

\* "https://www.amazon.com/sp?seller=A1"
AcmeStoreUrl == <<"https://www.amazon.com", "/sp", "?", "seller", "=", "A1">>

Acme == <<"A", "c", "m", "e">>

\* SellerInfo records as stages A-E leave them when stage F starts
SellerInfosBeforeF ==
    {[NewSellerInfo EXCEPT !.seller_store_url = AcmeStoreUrl],
     [NewSellerInfo EXCEPT !.seller_store_url = AcmeStoreUrl, !.seller_id = <<"A1">>,
                           !.seller_name = Acme, !.sold_by = Acme,
                           !.seller_rating = SuspectRating, !.seller_reviews = <<"4">>],
     [NewSellerInfo EXCEPT !.seller_store_url = AcmeStoreUrl, !.seller_id = None,
                           !.seller_reviews = <<"3", "1", "2">>,
                           !.is_fulfilled_by_amazon = TRUE]}

\* _scrape_seller_page(seller_info) is called; arg keeps the SellerInfo as
\* it was passed
InitSellerPage ==
    /\ pc = "F_request"
    /\ arg \in SellerInfosBeforeF
    /\ seller_info = arg
    /\ ret = Nil
    /\ page_response = Idle /\ soup = Idle /\ fields = Idle /\ seller_soup = Idle
    /\ net = <<>> /\ product = Idle

NextSellerPage ==
    \/ FetchSellerPage(SellerResponses)
    \/ ScrapeRatingData
    \/ ScrapeRatingYear
    \/ ScrapeEffectivePeriod
    \/ ScrapeReviewCount
    \/ ScrapePositiveFeedback

SpecSellerPage == InitSellerPage /\ [][NextSellerPage]_vars

(***************************************************************************)
(* scrape(url) on product pages drawn from a bounded set                   *)
(***************************************************************************)

ProductPage(basic, price, imgs, fba_text, marks, buybox, seller_link, byline, feedback_link, bullets) ==
    [title |-> basic.title, rating_alt |-> basic.rating_alt, reviews |-> basic.reviews,
     description |-> basic.description, price |-> price, imgs |-> imgs,
     fba_text |-> fba_text, badge |-> marks.badge, amazon_span |-> marks.amazon_span,
     buybox |-> buybox, seller_link |-> seller_link, byline |-> byline,
     feedback_link |-> feedback_link, bullets |-> bullets]

NoBasics == [title |-> None, rating_alt |-> None, reviews |-> None, description |-> None]

KettleBasics ==
    [title       |-> <<" ", " ", "A", "c", "m", "e", " ", " ", " ", "K", "e", "t", "t", "l", "e", " ">>,
     rating_alt  |-> <<"4", ".", "5", " ", "o", "u", "t", " ", "o", "f", " ", "5", " ", "s", "t", "a", "r", "s">>,
     reviews     |-> <<"1", ",", "2", "3", "4", " ", " ", "r", "a", "t", "i", "n", "g", "s">>,
     description |-> <<" ", "B", "o", "i", "l", "s", " ", "w", "a", "t", "e", "r", ".", " ">>]

LongBasics ==
    [title       |-> <<"K", "e", "t", "t", "l", "e">>,
     rating_alt  |-> <<"5", ".", " ", "s", "t", "a", "r", "s">>,
     reviews     |-> <<>>,
     description |-> LongName(DescriptionLimit + 2)]

Basics == {NoBasics, KettleBasics, LongBasics}

NoPrice == [hidden |-> None, main |-> Absent]

ProductPrices ==
    {NoPrice,
     [hidden |-> <<"$", "1", "9", ".", "9", "9">>, main |-> Absent],
     [hidden |-> <<"R", "s", " ", "6", "0", "0">>, main |-> Absent],
     [hidden |-> Rs1Dot234Dot50, main |-> Absent]}

AmazonMarks ==
    {[badge |-> FALSE, amazon_span |-> FALSE],
     [badge |-> TRUE, amazon_span |-> FALSE],
     [badge |-> TRUE, amazon_span |-> TRUE]}

Buyboxes ==
    {None,
     <<"S", "h", "i", "p", "s", " ", "f", "r", "o", "m", " ", "A", "m", "a", "z", "o", "n", " ", "S", "o", "l", "d", " ", "b", "y", " ", "A", "c", "m", "e", " ", "(", "S", "t", "o", "r", "e", ")">>,
     <<"S", "o", "l", "d", " ", "b", "y", " ", "A", "m", "a", "z", "o", "n", ".", "c", "o", "m", " ", "a", "n", "d", " ", "F", "u", "l", "f", "i", "l", "l", "e", "d", " ", "b", "y", " ", "A", "m", "a", "z", "o", "n">>,
     <<"S", "h", "i", "p", "p", "e", "d", " ", "b", "y", " ", "Z", "e", "d", " ", "S", "o", "l", "d", " ", "b", "y", " ", "B", "r", "a", "n", "d", "o", "n", " ", "G", "o", "o", "d", "s">>}

SellerLinks ==
    {Absent,
     [text |-> <<" ", "b", "y", " ", "A", "c", "m", "e">>, href |-> <<"/sp", "?", "ie", "=", "UTF8", "&", "seller", "=", "A1">>],
     [text |-> <<>>, href |-> <<"/sp", "?", "ie", "=", "UTF8">>],
     [text |-> <<"A", "m", "a", "z", "o", "n", ".", "c", "o", "m">>, href |-> None]}

Bylines ==
    {Absent,
     [text |-> <<"V", "i", "s", "i", "t", " ", "t", "h", "e", " ", "Z", "e", "d", " ", "S", "t", "o", "r", "e">>, href |-> <<"/stores/zed">>],
     [text |-> <<"B", "r", "a", "n", "d", ":", " ", "Z", "e", "d">>, href |-> None]}

FeedbackLinks ==
    {None,
     <<"4", ".", "9", " ", "o", "u", "t", " ", "o", "f", " ", "5", " ", "s", "t", "a", "r", "s", " ", "(", "1", ",", "2", "3", "4", " ", "r", "a", "t", "i", "n", "g", "s", ")">>,
     <<"3", "1", "2", " ", "r", "a", "t", "i", "n", "g", "s">>}

BulletLists ==
    {<<>>,
     <<<<"A", "S", "I", "N", ":", " ", "B", "0", "1">>, <<"S", "o", "l", "d", " ", "b", "y", ":", " ", "Z", "e", "d", " ", "R", "e", "t", "a", "i", "l">>>>}

\* pages with every combination of the seller markup, and pages with every
\* combination of the markup of the other fields
ProductPages ==
    {ProductPage(KettleBasics, NoPrice, OneSmallImage, fba, marks, buybox, link, byline, feedback, bullets) :
        fba \in BOOLEAN, marks \in AmazonMarks, buybox \in Buyboxes, link \in SellerLinks,
        byline \in Bylines, feedback \in FeedbackLinks, bullets \in BulletLists}
    \cup {ProductPage(basic, price, imgs, FALSE, [badge |-> FALSE, amazon_span |-> FALSE],
                      None, Absent, byline, None, <<>>) :
            basic \in Basics, price \in ProductPrices,
            imgs \in {<<>>, OneSmallImage, Gallery(MAX_IMAGES + 2)}, byline \in Bylines}

\* the body of an answer that is no product page
ErrorPage ==
    ProductPage(NoBasics, NoPrice, <<>>, FALSE, [badge |-> FALSE, amazon_span |-> FALSE],
                None, Absent, Absent, None, <<>>)

ProductResponses ==
    {[raises |-> TRUE, status |-> 0, page |-> Idle],
     [raises |-> FALSE, status |-> 503, page |-> ErrorPage],
     [raises |-> FALSE, status |-> 404, page |-> ErrorPage]}
    \cup {[raises |-> FALSE, status |-> 200, page |-> p] : p \in ProductPages}

\* what the seller's page answers while scrape() runs
StoreResponses ==
    {[raises |-> TRUE, status |-> 0, page |-> Idle],
     [raises |-> FALSE, status |-> 503, page |-> Idle],
     [raises |-> FALSE, status |-> 200, page |-> SellerPage(<<>>, None, None, None, None, <<>>)],
     [raises |-> FALSE, status |-> 200,
      page |-> SellerPage(<<Frag120, Frag450, Frag900>>, <<"4", ".", "7">>, None,
                          <<"3", "2", "1">>, None, <<NinetyFivePositive>>)],
     [raises |-> FALSE, status |-> 200,
      page |-> SellerPage(<<Frag("null_stars", TRUE, 450, TRUE, NoStars)>>, None, None,
                          None, <<"9", "7", "%">>, <<>>)]}

\* scrape(url) is called
Init ==
    /\ pc = "start"
    /\ page_response = Idle /\ soup = Idle /\ fields = Idle /\ seller_soup = Idle
    /\ net = <<>> /\ seller_info = Idle /\ product = Idle
    /\ arg = Nil /\ ret = Nil

Next ==
    \/ FetchProductPage(ProductResponses)
    \/ ExtractFields(RateResponses)
    \/ ExtractAmazonMarks
    \/ ExtractSellerFromBuybox
    \/ ExtractSellerFromLinks
    \/ ExtractSellerFeedback
    \/ ExtractSoldByFromBullets
    \/ FetchSellerPage(StoreResponses)
    \/ ScrapeRatingData
    \/ ScrapeRatingYear
    \/ ScrapeEffectivePeriod
    \/ ScrapeReviewCount
    \/ ScrapePositiveFeedback
    \/ CleanNames
    \/ ReturnProduct

Spec == Init /\ [][Next]_vars

(***************************************************************************)
(* Claims about scrape(url)                                                *)
(***************************************************************************)

\* the seller extraction has returned its SellerInfo
SellerInfoReturned == pc \in {"assemble", "done"} /\ seller_info # Idle

\* C1: in every SellerInfo that the seller extraction returns, each of the
\* 12 string fields holds a string, the sentinel "Not found" or an extracted
\* value, and never None
C1_NoStringFieldIsNone ==
    SellerInfoReturned => \A f \in StringFields : seller_info[f] # None

\* the positions of the seller-page requests among the requests sent
SellerRequests == {i \in 1..Len(net) : net[i].kind = "seller"}

\* C2: when the product-page request raises or is answered with a status
\* other than 200, scrape returns None and the run has extracted no field
\* and sent no request but the one for the product page; a Product is
\* returned only after the product page was answered with 200
C2_FailedPageRequestReturnsNone ==
    /\ (page_response # Idle /\ (page_response.raises \/ page_response.status # 200))
           => /\ pc = "done"
              /\ product = NoProduct
              /\ soup = Idle /\ fields = Idle /\ seller_info = Idle
              /\ net = <<ProductRequest>>
    /\ (product # Idle /\ product # NoProduct)
           => page_response = [raises |-> FALSE, status |-> 200]

C2_Status503ReturnedNone ==
    /\ page_response = [raises |-> FALSE, status |-> 503]
    /\ pc = "done"
    /\ product = NoProduct

\* stages A to E of the seller extraction have finished
StagesAToEDone ==
    pc \in {"F_request", "F_json", "F_a", "F_b", "F_c", "F_feedback", "G", "assemble", "done"}
        /\ seller_info # Idle

\* C3: a scrape sends at most one seller-page request; it is sent only after
\* the product page was answered with 200 and stages A to E have finished,
\* only with a store URL that is not the sentinel and is_amazon false, and to
\* the resolved seller_store_url; with the sentinel as store URL or with
\* is_amazon true no seller-page request is sent
C3_SellerPageRequest ==
    /\ Cardinality(SellerRequests) <= 1
    /\ SellerRequests # {}
           => /\ page_response = [raises |-> FALSE, status |-> 200]
              /\ net[1] = ProductRequest
              /\ SellerRequests = {Len(net)}
              /\ StagesAToEDone /\ pc # "F_request"
              /\ seller_info.seller_store_url # NotFound
              /\ ~seller_info.is_amazon
              /\ net[Len(net)].url = seller_info.seller_store_url
    /\ (StagesAToEDone /\ (seller_info.seller_store_url = NotFound \/ seller_info.is_amazon))
           => SellerRequests = {} /\ pc # "F_request"

C3_SellerPageRequested ==
    /\ pc = "done"
    /\ product # NoProduct
    /\ SellerRequests # {}

(***************************************************************************)
(* Claims about the functions applied on their own                         *)
(***************************************************************************)

HasDigit(s) == \E i \in 1..Len(s) : s[i] \in Digit

\* C8: for every price text without a digit extract_currency returns the
\* amount "Not found"; "PKR 1,234.50" gives ("PKR", "1234.50"); a returned
\* amount is "Not found" or has at least one digit and no comma.
C8_AmountIsSentinelOrNumeric ==
    pc = "done" =>
        /\ ~HasDigit(arg) => ret.price = NotFound
        /\ arg = Pkr1234 =>
               ret = [symbol |-> <<"P", "K", "R">>,
                      price  |-> <<"1", "2", "3", "4", ".", "5", "0">>]
        /\ \/ ret.price = NotFound
           \/ HasDigit(ret.price) /\ \A i \in 1..Len(ret.price) : ret.price[i] # ","

\* whether s starts with "by" in any case followed by whitespace
StartsWithByWord(s) ==
    Len(s) >= 3 /\ Lower(s[1]) = "b" /\ Lower(s[2]) = "y" /\ IsSpace(s[3])

\* C9: clean_seller_name returns empty and "Not found" names unchanged,
\* turns "(Store) by Acme Corp" into "Acme Corp", returns a name of at most
\* 100 characters without parentheses that does not start with "by "
\* unchanged apart from trimming, and returns at most 100 characters plus
\* "...".
C9_CleanSellerName ==
    pc = "done" =>
        /\ arg \in {<<>>, NotFound} => ret = arg
        /\ arg = StoreByAcmeCorp => ret = AcmeCorp
        /\ ( /\ arg \notin {<<>>, NotFound}
             /\ Len(arg) <= NameLimit
             /\ \A i \in 1..Len(arg) : arg[i] \notin {"(", ")"}
             /\ ~StartsWithByWord(Strip(arg)) ) => ret = Strip(arg)
        /\ (Len(arg) > NameLimit /\ \A i \in 1..Len(arg) : arg[i] = "a") =>
               ret = SubSeq(arg, 1, NameLimit) \o Ellipsis

\* C10: when a non-sentinel amount is resolved with a symbol among "PKR",
\* the rupee sign and "Rs", _extract_price returns the symbol "$"; no
\* returned pair and no Product.price carries one of those symbols.
C10_NoNonUsdSymbolReturned ==
    pc = "done" =>
        /\ PriceAsksRate(arg) => ret.symbol = Dollar
        /\ ret.symbol \notin NonUsdSymbols
        /\ \A sym \in NonUsdSymbols : ~StartsWith(ProductPrice(ret), sym)

\* the URLs the visits of the page resolve, in visiting order
Candidates(imgs) ==
    LET v == Visits(1, imgs) IN [i \in 1..Len(v) |-> ResolveSrc(v[i])]

\* what the accepted candidates become, in visiting order
Results(imgs) ==
    LET c == SelectSeq(Candidates(imgs), Accepted) IN [i \in 1..Len(c) |-> Rewritten(c[i])]

FirstIndex(seq, x) == SetMin({i \in 1..Len(seq) : seq[i] = x})

Elements(seq) == {seq[i] : i \in 1..Len(seq)}

\* C6 (as amended): the Product's image list holds the first MAX_IMAGES of
\* the distinct URLs that the accepted candidates (those that include
\* "http") become after the rewrite, each once, in order of first
\* occurrence, and image_count is the length of the list.
C6_ImagesFirstOccurrences ==
    pc = "done" =>
        LET r == Results(arg)
            im == ret.images
        IN  /\ \A i, j \in 1..Len(im) : i # j => im[i] # im[j]
            /\ Elements(im) \subseteq Elements(r)
            /\ Len(im) = IF Cardinality(Elements(r)) < MAX_IMAGES
                         THEN Cardinality(Elements(r)) ELSE MAX_IMAGES
            /\ \A i, j \in 1..Len(im) :
                   i < j => FirstIndex(r, im[i]) < FirstIndex(r, im[j])
            /\ \A i \in 1..Len(im) : \A u \in Elements(r) :
                   FirstIndex(r, u) < FirstIndex(r, im[i]) => InList(im, u)
            /\ ret.image_count = Len(im)

\* C6, a reachable case: two different accepted candidates became the same URL, a
\* third URL was listed too, and the list holds each once
C6_RewriteCollapsed ==
    /\ pc = "done"
    /\ \E c, d \in Elements(SelectSeq(Candidates(arg), Accepted)) :
           c # d /\ Rewritten(c) = Rewritten(d) /\ InList(ret.images, Rewritten(c))
    /\ Len(Results(arg)) > Len(ret.images)
    /\ Len(ret.images) >= 2

\* C6 (as claimed): the above, and the list contains only URLs that include
\* "http".
C6_ImagesAllIncludeHttp ==
    /\ C6_ImagesFirstOccurrences
    /\ pc = "done" => \A i \in 1..Len(ret.images) : InList(ret.images[i], Http)

\* C7: an accepted URL with the size marker becomes the part before the
\* marker followed by the high-resolution suffix, so that
\* ".../image._SL160_.jpg" becomes exactly ".../image._SL1500_.jpg"; a URL
\* without the marker is kept unchanged.
C7_HighResKeepsExtension ==
    pc = "done" =>
        /\ arg = OneSmallImage =>
               ret.images = <<(<<Http, "://img/image">> \o HighResSuffix \o <<".jpg">>)>>
        /\ Len(extract_images(arg)) <= MAX_IMAGES =>
               \A c \in Elements(SelectSeq(Candidates(arg), Accepted)) :
                   ~InList(c, SizeMarker) => InList(ret.images, c)

(***************************************************************************)
(* Claims about the seller page                                            *)
(***************************************************************************)

\* the rating a record with integer stars leaves in a field that held prior
RatingAfter(f, prior) ==
    IF f.has_star5 /\ TotalPercent(f) > 0
    THEN TenthsText(Tenths(WeightedSum(f), TotalPercent(f)))
    ELSE prior

\* C4: the 12-month record is the first fragment in document order whose
\* ratingCount lies in [400, 500], none if there is no such fragment; the
\* lifetime record is the fragment with the greatest ratingCount, taken only
\* if that count exceeds 500.  Counts 120, 450, 900 give 450 and 900.
C4_RecordSelection ==
    pc = "F_a" =>
        LET frags == seller_soup.fragments
            count(i) == RatingCountOf(frags[i])
            inRange == {i \in 1..Len(frags) : 400 <= count(i) /\ count(i) <= 500}
            top == {i \in 1..Len(frags) : \A j \in 1..Len(frags) : count(j) <= count(i)}
        IN  /\ IF inRange = {}
               THEN /\ seller_info.seller_reviews = arg.seller_reviews
                    /\ seller_info.seller_rating = arg.seller_rating
               ELSE LET first == CHOOSE i \in inRange : \A j \in inRange : i <= j
                    IN  /\ seller_info.seller_reviews = NatToText(count(first))
                        /\ seller_info.seller_rating =
                               RatingAfter(frags[first], arg.seller_rating)
            /\ IF top = {} \/ \A i \in top : count(i) <= 500
               THEN /\ seller_info.lifetime_reviews = arg.lifetime_reviews
                    /\ seller_info.lifetime_rating = arg.lifetime_rating
               ELSE LET first == CHOOSE i \in top : \A j \in top : i <= j
                    IN  /\ seller_info.lifetime_reviews = NatToText(count(first))
                        /\ seller_info.lifetime_rating =
                               RatingAfter(frags[first], arg.lifetime_rating)
            /\ frags = <<Frag120, Frag450, Frag900>> =>
                   /\ seller_info.seller_reviews = <<"4", "5", "0">>
                   /\ seller_info.lifetime_reviews = <<"9", "0", "0">>

\* C4, a reachable case: the fragments 120, 450, 900 were processed
C4_Counts120_450_900 ==
    /\ pc = "F_a"
    /\ seller_soup.fragments = <<Frag120, Frag450, Frag900>>
    /\ seller_info.seller_reviews = <<"4", "5", "0">>
    /\ seller_info.lifetime_reviews = <<"9", "0", "0">>

Distance(a, b) == IF a >= b THEN a - b ELSE b - a

\* C5 for one record f written to the fields rating_field and reviews_field
WeightedRatingWritten(f, rating_field, reviews_field) ==
    /\ seller_info[reviews_field] = NatToText(f.ratingCount)
    /\ f.has_star5 =>
        /\ TotalPercent(f) = 0 => seller_info[rating_field] = arg[rating_field]
        /\ TotalPercent(f) > 0 =>
               \E n \in 0..50 :
                   /\ seller_info[rating_field] = TenthsText(n)
                   /\ 2 * Distance(10 * WeightedSum(f), n * TotalPercent(f)) <= TotalPercent(f)
        /\ f.stars = Stars80 => seller_info[rating_field] = <<"4", ".", "6">>

\* C5: for each resolved record the rating written is the star-weighted
\* average rounded to one decimal and shown with one decimal digit
\* (80/10/5/3/2 gives "4.6"), the rating keeps its prior value when the
\* total is zero, and the review count is the record's ratingCount as text.
C5_WeightedRating ==
    pc = "F_a" =>
        LET frags == seller_soup.fragments
            t == TwelveMonthIndex(frags)
            l == LifetimeIndex(frags)
        IN  /\ t # 0 => WeightedRatingWritten(frags[t], "seller_rating", "seller_reviews")
            /\ l # 0 => WeightedRatingWritten(frags[l], "lifetime_rating", "lifetime_reviews")

\* C5, a reachable case: a 12-month record with the stars 80/10/5/3/2 gave "4.6" and
\* a lifetime record with a zero total left the lifetime rating alone
C5_Rating46AndZeroTotal ==
    /\ pc = "F_a"
    /\ LET frags == seller_soup.fragments
           t == TwelveMonthIndex(frags)
           l == LifetimeIndex(frags)
       IN  /\ t # 0 /\ frags[t].stars = Stars80
           /\ l # 0 /\ TotalPercent(frags[l]) = 0
    /\ seller_info.seller_rating = <<"4", ".", "6">>
    /\ seller_info.lifetime_rating = NotFound
    /\ seller_info.lifetime_reviews = <<"9", "0", "0">>

\* the seller page was answered with 200 and lines 300-422 ran to their end
\* without an exception
SellerPageProcessed ==
    /\ pc = "G"
    /\ seller_soup # Idle
    /\ ~ApplyRatingData(arg, seller_soup.fragments).raised

\* the texts "NN%" of the text nodes of page that match "NN% positive"
PositivePercents(page) ==
    {SubSeq(page.text_nodes[k], run[1], run[2] + 1) :
        <<k, run>> \in {<<k, run>> \in (1..Len(page.text_nodes)) \X ((1..20) \X (1..20)) :
                           /\ MatchesPercentPositive(page.text_nodes[k])
                           /\ run \in PercentRuns(page.text_nodes[k])}}

\* C11: after a seller page answered with 200 is processed without an
\* exception, positive_feedback is the text of the percentFiveStar element
\* when that is there; otherwise it is the "NN%" of a text node that matches
\* "NN% positive" when there is one; it stays "Not found" only with neither
C11_PositiveFeedback ==
    SellerPageProcessed =>
        IF seller_soup.percent_five_star # None
        THEN seller_info.positive_feedback = Strip(seller_soup.percent_five_star)
        ELSE IF PositivePercents(seller_soup) # {}
        THEN seller_info.positive_feedback \in PositivePercents(seller_soup)
        ELSE seller_info.positive_feedback = NotFound

\* the product page holds nothing of what stages A to E look for
NoSellerMarkup(page) ==
    /\ ~page.fba_text /\ ~page.badge
    /\ page.buybox = None
    /\ page.seller_link = Absent /\ page.byline = Absent
    /\ page.feedback_link = None
    /\ page.bullets = <<>>

\* every string field is the sentinel and both flags are false
AllSentinel(si) ==
    /\ \A f \in StringFields : si[f] = NotFound
    /\ ~si.is_amazon /\ ~si.is_fulfilled_by_amazon

\* C12: for a product page answered with 200 that holds none of the seller
\* markup, the SellerInfo has every string field at "Not found" and both
\* flags false from its construction to its return, no seller-page request
\* is sent, and the finished scrape has returned a Product that carries that
\* SellerInfo
C12_NoSellerMarkup ==
    (soup # Idle /\ NoSellerMarkup(soup)) =>
        /\ seller_info # Idle => AllSentinel(seller_info)
        /\ SellerRequests = {}
        /\ pc \notin {"F_request", "F_json", "F_a", "F_b", "F_c", "F_feedback"}
        /\ pc = "done" =>
               /\ product # NoProduct
               /\ AllSentinel(product.seller_details)

C12_ProductWithoutSeller ==
    /\ pc = "done"
    /\ soup # Idle /\ NoSellerMarkup(soup)
    /\ product # NoProduct
    /\ product.title = <<"A", "c", "m", "e", " ", "K", "e", "t", "t", "l", "e">>
    /\ product.seller_details.seller_name = NotFound

\* the seller that the buybox block of page gives, None when it gives none
BuyboxSeller(page) ==
    IF page.buybox = None \/ SearchLabelled(page.buybox, SoldByLabel) = None
    THEN None
    ELSE Strip(SubParens(Strip(SearchLabelled(page.buybox, SoldByLabel))))

\* the sellers that the detail bullets of page give, in document order
BulletSellers(page) ==
    LET given(text) == IF Contains(text, SoldByColon) /\ SoldByOfBullet(text) # None
                       THEN Strip(SoldByOfBullet(text))
                       ELSE None
    IN  SelectSeq([i \in 1..Len(page.bullets) |-> given(Strip(page.bullets[i]))],
                  LAMBDA x : x # None)

\* the steps of the seller extraction in their order: A, B, C, D, E, then F
\* (or not), then G
StageOrder ==
    {<<"A", "B">>, <<"B", "C">>, <<"C", "D">>, <<"D", "E">>,
     <<"E", "F_request">>, <<"E", "G">>,
     <<"F_request", "F_json">>, <<"F_request", "G">>, <<"F_json", "F_a">>,
     <<"F_json", "G">>, <<"F_a", "F_b">>, <<"F_b", "F_c">>, <<"F_c", "F_feedback">>,
     <<"F_feedback", "G">>, <<"G", "assemble">>}

\* what each of the stages B to E does to the names, the rating and the
\* review count
StageOverwrites ==
    /\ (pc = "B" /\ BuyboxSeller(soup) # None) =>
           /\ seller_info'.seller_name = BuyboxSeller(soup)
           /\ seller_info'.sold_by = BuyboxSeller(soup)
    /\ (pc = "C" /\ seller_info.seller_name # NotFound) =>
           seller_info'.seller_name = seller_info.seller_name
    /\ (pc = "D" /\ soup.feedback_link # None) =>
           LET rating == RatingBeforeOutOf(Strip(soup.feedback_link))
               count == FirstCount(Strip(soup.feedback_link))
           IN  /\ rating # None => seller_info'.seller_rating = rating
               /\ count # None => seller_info'.seller_reviews = count
    /\ (pc = "E" /\ BulletSellers(soup) # <<>>) =>
           /\ seller_info'.sold_by = BulletSellers(soup)[Len(BulletSellers(soup))]
           /\ seller_info'.seller_name =
                  IF seller_info.seller_name = NotFound
                  THEN BulletSellers(soup)[1]
                  ELSE seller_info.seller_name

\* both the buybox and a detail bullet give a seller
BuyboxAndBulletGiveSeller ==
    /\ soup # Idle
    /\ BuyboxSeller(soup) \notin {None, NotFound}
    /\ BulletSellers(soup) # <<>>

\* C13: the seller extraction runs its stages in the order A, B, C, D, E,
\* F, G; B overwrites seller_name and sold_by, C sets seller_name only when
\* it is still the sentinel, D overwrites seller_rating and seller_reviews,
\* E overwrites sold_by and sets seller_name only when it is still the
\* sentinel; so when the buybox and a detail bullet both give a seller,
\* sold_by before the cleanup is the bullet's and seller_name the buybox's
C13_StageOrderAndOverwrites ==
    /\ [][(pc \in {"A", "B", "C", "D", "E", "F_request", "F_json", "F_a", "F_b",
                   "F_c", "F_feedback", "G"} /\ pc' # pc)
              => <<pc, pc'>> \in StageOrder]_vars
    /\ [][StageOverwrites]_vars
    /\ []((pc \in {"F_request", "G"} /\ BuyboxAndBulletGiveSeller) =>
              /\ seller_info.sold_by = BulletSellers(soup)[Len(BulletSellers(soup))]
              /\ seller_info.seller_name = BuyboxSeller(soup))

C13_BuyboxNameBulletSoldBy ==
    /\ pc = "G"
    /\ BuyboxAndBulletGiveSeller
    /\ seller_info.seller_name = Acme
    /\ seller_info.sold_by = <<"Z", "e", "d", " ", "R", "e", "t", "a", "i", "l">>

\* C14: when the seller-page request raises or is answered with a status
\* other than 200, or the processing of the fetched page fails partway,
\* stage F ends with every SellerInfo field at the value it had when stage F
\* started
C14_FailureLeavesFieldsUntouched ==
    (pc = "G" /\ ~SellerPageProcessed) => seller_info = arg

\* the effective-period element of page is there and its text is not empty
HasEffectiveRating(page) ==
    page.effective # None /\ Strip(page.effective) # <<>>

\* C15: in stage F, after the JSON values and the rating-year element, the
\* effective-period element overwrites seller_rating exactly when it is
\* there with a text that is not empty and seller_rating is "Not found" or
\* "4.9", and any other rating is left as it is; the review-count element
\* overwrites seller_reviews only when that is still "Not found"
C15_EffectivePeriodAndReviewCount ==
    /\ [][pc = "F_b" =>
              seller_info'.seller_rating =
                  IF /\ HasEffectiveRating(seller_soup)
                     /\ seller_info.seller_rating \in {NotFound, <<"4", ".", "9">>}
                  THEN Strip(seller_soup.effective)
                  ELSE seller_info.seller_rating]_vars
    /\ [][pc = "F_c" =>
              seller_info'.seller_reviews =
                  IF seller_info.seller_reviews = NotFound /\ seller_soup.count365 # None
                  THEN Strip(seller_soup.count365)
                  ELSE seller_info.seller_reviews]_vars

\* C15, a reachable case: the rating "4.9" that stage D found was replaced
\* by the effective-period element's "4.8", and the review count "4" was kept
\* although the review-count element was there
C15_SuspectRatingOverwritten ==
    /\ pc = "F_feedback"
    /\ arg.seller_rating = <<"4", ".", "9">>
    /\ seller_soup.fragments = <<>>
    /\ seller_soup.rating_year = None
    /\ seller_soup.count365 # None
    /\ seller_info.seller_rating = <<"4", ".", "8">>
    /\ seller_info.seller_reviews = <<"4">>


\* stage A found the badge and the exact text "Amazon.com" on the product page
StageAFoundAmazon ==
    soup # Idle /\ soup.badge /\ soup.amazon_span /\ seller_info # Idle

\* C16: once stage A has set is_amazon, for the badge element together with
\* the exact text "Amazon.com", no later stage resets it: is_amazon stays
\* true up to the returned SellerInfo and no seller page is requested in
\* that scrape, whatever the buybox block says
C16_IsAmazonMonotonic ==
    StageAFoundAmazon =>
        /\ seller_info.is_amazon
        /\ SellerRequests = {}
        /\ (pc = "done" /\ product # NoProduct => product.seller_details.is_amazon)

=============================================================================
